---- MODULE Spec2Model ----
(***************************************************************************)
(* Model of MysqlHandler (src/src/mysql_handler.py): the statement         *)
(* builders as operators over texts, and the execution wrapper as a state  *)
(* machine over a connection, its cursors and the outcome of each call.    *)
(*                                                                         *)
(* A text is a sequence of tokens.  An identifier (table, column, source   *)
(* expression) is a sequence of one-character tokens; every literal        *)
(* fragment of an f-string of the source is one token.                     *)
(***************************************************************************)
EXTENDS Integers, Sequences, FiniteSets, TLC

\* ------------------------------------------------------------------ bounds
MaxCols == 3
MaxKeys == 2
MaxCalls == 3
MaxAttempts == 3
MaxId == 3
MaxLifeCalls == 1
MaxBatch == 2
MaxTableCalls == 2

\* ------------------------------------------------------------ input domains
NAMES == {<<"a">>, <<"b">>, <<"a", "b">>}
TABLES == {<<"t">>, <<"t", "1">>}
SRCS == {<<"s">>, <<"b">>, <<"s", "*", "2">>}
OVERRIDES == {<<>>, <<"b", "=UPPER(vals.", "b", ")">>}

SeqsUpTo(S, n) == UNION {[1..k -> S] : k \in 0..n}

VARIABLES args, built, cnx, cursors, last, ctor, rt, db, ri

vars == <<args, built, cnx, cursors, last, ctor, rt, db, ri>>

\* the state of the constructor, of retry, of the database and of
\* reset_auto_increment
others == <<ctor, rt, db, ri>>

\* ------------------------------------------------------- python primitives
\* sep.join(xs)
RECURSIVE Join(_, _)
Join(sep, xs) ==
    IF xs = <<>> THEN <<>>
    ELSE IF Len(xs) = 1 THEN xs[1]
    ELSE xs[1] \o sep \o Join(sep, Tail(xs))

\* col in keys, keys a tuple or list of names
In(col, keys) == \E i \in 1..Len(keys) : keys[i] = col

\* col in keys, keys a str: col occurs in it as a substring
InStr(col, keys) ==
    \E i \in 0..Len(keys) :
        i + Len(col) <= Len(keys) /\ SubSeq(keys, i + 1, i + Len(col)) = col

\* col in keys, for keys of either type
PyIn(col, keys) == IF keys.str THEN InStr(col, keys.val) ELSE In(col, keys.val)

Digit(d) ==
    CASE d = 0 -> "0" [] d = 1 -> "1" [] d = 2 -> "2" [] d = 3 -> "3"
      [] d = 4 -> "4" [] d = 5 -> "5" [] d = 6 -> "6" [] d = 7 -> "7"
      [] d = 8 -> "8" [] d = 9 -> "9"

\* the decimal rendering of i in an f-string
RECURSIVE Str(_)
Str(i) == IF i < 10 THEN <<Digit(i)>> ELSE Str(i \div 10) \o <<Digit(i % 10)>>

\* an insertion-ordered dict: d[k] = v
DictSet(d, k, v) ==
    IF \E i \in 1..Len(d) : d[i].key = k
    THEN [i \in 1..Len(d) |-> IF d[i].key = k THEN [key |-> k, val |-> v] ELSE d[i]]
    ELSE Append(d, [key |-> k, val |-> v])

DictGet(d, k) == d[CHOOSE i \in 1..Len(d) : d[i].key = k].val

DictKeys(d) == [i \in 1..Len(d) |-> d[i].key]

DictValues(d) == [i \in 1..Len(d) |-> d[i].val]

\* ------------------------------------------------------ statement builders
OnDupTrailingComma(col_names) ==
    Join(<<>>, [i \in 1..Len(col_names) |->
                   col_names[i] \o <<"=vals.">> \o col_names[i] \o <<",">>])

on_dup(col_names) ==
    LET on_dup_array == [i \in 1..Len(col_names) |->
                            col_names[i] \o <<"=vals.">> \o col_names[i]]
    IN  Join(<<",">>, on_dup_array)

PlaceholdersOffByOne(cols) == Join(<<",">>, [i \in 1..(Len(cols) + 1) |-> <<"%s">>])

Placeholders(cols) == Join(<<",">>, [i \in 1..Len(cols) |-> <<"%s">>])

ColsOnDupUnfiltered(cols, keys) == cols

ColsOnDup(cols, keys) == SelectSeq(cols, LAMBDA col : ~In(col, keys))

OnDupChoiceIgnoresOverride(override, cols_on_dup) == on_dup(cols_on_dup)

OnDupChoiceNoFallback(override, cols_on_dup) == override

OnDupChoiceNeverEmpty(override, cols_on_dup) ==
    IF override # <<>> THEN override
    ELSE IF cols_on_dup = <<>> THEN <<"1=1">>
    ELSE on_dup(cols_on_dup)

\* on_dup or MysqlHandler.on_dup(cols_on_dup): the empty string is falsy
OnDupChoice(override, cols_on_dup) ==
    IF override # <<>> THEN override ELSE on_dup(cols_on_dup)

insert_on_duplicate_key_update_statement(table, cols, keys, override) ==
    LET cols_str == Join(<<",">>, cols)
        placeholders == Placeholders(cols)
        cols_on_dup == ColsOnDup(cols, keys)
        clause == OnDupChoice(override, cols_on_dup)
    IN  <<"insert into ">> \o table \o <<" (">> \o cols_str \o <<") values (">>
        \o placeholders \o <<") as vals on duplicate key update ">> \o clause

AliasFromOne(i) == <<"alias">> \o Str(i + 1)

Alias(i) == <<"alias">> \o Str(i)

\* {col: f"alias{i}" for (i, col) in enumerate(cols_into)}
RECURSIVE Col2AliasFrom(_, _, _)
Col2AliasFrom(cols_into, i, d) ==
    IF i >= Len(cols_into) THEN d
    ELSE Col2AliasFrom(cols_into, i + 1, DictSet(d, cols_into[i + 1], Alias(i)))

Col2Alias(cols_into) == Col2AliasFrom(cols_into, 0, <<>>)

InsertSelectOnDupUnfiltered(cols_into, col2alias, keys) ==
    [i \in 1..Len(cols_into) |->
        cols_into[i] \o <<"=vals.">> \o DictGet(col2alias, cols_into[i])]

InsertSelectOnDup(cols_into, col2alias, keys) ==
    LET kept == SelectSeq(cols_into, LAMBDA col_into : ~PyIn(col_into, keys))
    IN  [i \in 1..Len(kept) |->
            kept[i] \o <<"=vals.">> \o DictGet(col2alias, kept[i])]

insert_select_on_duplicate_key_update_statement(table_from, table_into, colmap, keys) ==
    LET cols_from == DictKeys(colmap)
        cols_into == DictValues(colmap)
        col2alias == Col2Alias(cols_into)
        aliases == DictValues(col2alias)
        aliases_str == Join(<<",">>, aliases)
        cols_into_str == Join(<<",">>, cols_into)
        cols_from_str == Join(<<",">>, cols_from)
        on_dup_str == Join(<<",">>, InsertSelectOnDup(cols_into, col2alias, keys))
    IN  <<"insert into ">> \o table_into \o <<" (">> \o cols_into_str
        \o <<") select * from (select ">> \o cols_from_str \o <<" from ">>
        \o table_from \o <<") as vals(">> \o aliases_str
        \o <<") on duplicate key update ">> \o on_dup_str

\* ------------------------------------------------- builder specification
NoArgs ==
    [fn |-> "none", table |-> <<>>, cols |-> <<>>, keys |-> <<>>,
     keys_str |-> <<>>, override |-> <<>>, on_dup_given |-> FALSE,
     table_from |-> <<>>, colmap |-> <<>>]

\* on_dup: str = ""
OnDupDefault == <<>>

NotBuilt == [done |-> FALSE, text |-> <<>>]

\* a dict literal: its keys are pairwise distinct
COLMAPS ==
    {m \in SeqsUpTo([key : SRCS, val : NAMES], MaxCols) :
        \A i, j \in 1..Len(m) : m[i].key = m[j].key => i = j}

\* on_dup is passed (on_dup_given) or left out, and then it is its default
UpsertArgs ==
    {[fn |-> "upsert", table |-> t, cols |-> c, keys |-> k, override |-> o,
      on_dup_given |-> TRUE, keys_str |-> <<>>, table_from |-> <<>>,
      colmap |-> <<>>] :
        t \in TABLES, c \in SeqsUpTo(NAMES, MaxCols),
        k \in SeqsUpTo(NAMES, MaxKeys), o \in OVERRIDES}
    \cup
    {[fn |-> "upsert", table |-> t, cols |-> c, keys |-> k, override |-> OnDupDefault,
      on_dup_given |-> FALSE, keys_str |-> <<>>, table_from |-> <<>>,
      colmap |-> <<>>] :
        t \in TABLES, c \in SeqsUpTo(NAMES, MaxCols),
        k \in SeqsUpTo(NAMES, MaxKeys)}

OnDupArgs ==
    {[fn |-> "on_dup", table |-> <<>>, cols |-> c, keys |-> <<>>, override |-> <<>>,
      on_dup_given |-> FALSE, keys_str |-> <<>>, table_from |-> <<>>,
      colmap |-> <<>>] :
        c \in SeqsUpTo(NAMES, MaxCols)}

InsertSelectArgs ==
    {[fn |-> "insert_select", table |-> t, cols |-> <<>>, keys |-> k,
      keys_str |-> <<>>, override |-> <<>>, on_dup_given |-> FALSE,
      table_from |-> <<"t", "0">>,
      colmap |-> m] :
        t \in TABLES, m \in COLMAPS, k \in SeqsUpTo(NAMES, MaxKeys)}

\* keys passed as one str (keys_str), as the annotation keys: str has it
STRKEYS == {<<"a">>, <<"b">>, <<"a", "b">>}

InsertSelectStrArgs ==
    {[fn |-> "insert_select_str", table |-> t, cols |-> <<>>, keys |-> <<>>,
      keys_str |-> k, override |-> <<>>, on_dup_given |-> FALSE,
      table_from |-> <<"t", "0">>,
      colmap |-> m] :
        t \in TABLES, m \in COLMAPS, k \in STRKEYS}

\* -------------------------------------------------------------- driver
\* the exception classes of mysql.connector.errors, and the builtin Warning
Parent(cls) ==
    CASE cls \in {"DataError", "IntegrityError", "InternalError",
                  "NotSupportedError", "OperationalError", "ProgrammingError"}
           -> "DatabaseError"
      [] cls \in {"DatabaseError", "InterfaceError"} -> "Error"
      [] cls \in {"Error", "Warning"} -> "Exception"
      [] OTHER -> "object"

RECURSIVE IsSubclass(_, _)
IsSubclass(cls, base) ==
    IF cls = base THEN TRUE
    ELSE IF cls = "object" THEN FALSE
    ELSE IsSubclass(Parent(cls), base)

CLASSES ==
    {"DataError", "DatabaseError", "Error", "IntegrityError", "InterfaceError",
     "InternalError", "NotSupportedError", "OperationalError", "ProgrammingError",
     "Warning"}

NoExc == [cls |-> "none", errno |-> 0, notes |-> <<>>]

\* what the driver may raise: every class, and Error(msg, 123) as in the tests
EXCEPTIONS ==
    {[cls |-> c, errno |-> -1, notes |-> <<>>] : c \in CLASSES}
    \cup {[cls |-> "Error", errno |-> 123, notes |-> <<>>]}

\* isinstance(exc, connector.errors.Error)
IsConnectorError(exc) == exc # NoExc /\ IsSubclass(exc.cls, "Error")

STATEMENTS == {"select * from XXX", "insert into t values (%s)"}
PARAMS == {"None", "()", "(1,)"}
ROWSETS == {<<>>, <<"r1">>, <<"r1", "r2">>}

\* bool(x) of a params value
Truthy(x) == x \notin {"None", "()", "{}", "False"}

\* x or y
Or(x, y) == IF Truthy(x) THEN x ELSE y

\* what the driver does in one call: raise exc at stage "execute" or "fetch",
\* or (exc = NoExc) succeed with the result set rows
DRIVER ==
    {[stage |-> "none", exc |-> NoExc, rows |-> r] : r \in ROWSETS}
    \cup {[stage |-> "execute", exc |-> e, rows |-> <<>>] : e \in EXCEPTIONS}

DRIVER_FETCH ==
    DRIVER \cup {[stage |-> "fetch", exc |-> e, rows |-> <<>>] :
                    e \in {x \in EXCEPTIONS : x.cls \in {"InterfaceError", "Warning"}}}

Ev(kind, cur) ==
    [ev |-> kind, cur |-> cur, statement |-> "", params |-> "", multi |-> FALSE]

EvRun(kind, cur, statement, params, multi) ==
    [ev |-> kind, cur |-> cur, statement |-> statement, params |-> params,
     multi |-> multi]

\* logger.<kind>(msg, {"mysql_options_redacted": options, ...})
LogEv(kind, options) ==
    [ev |-> kind, cur |-> 0, statement |-> "", params |-> options, multi |-> FALSE]

NoValue == [kind |-> "None", rows |-> <<>>]

\* a block's result: the driver events it caused, the exception it leaves
\* with (NoExc: none) and the value it returns
Block(log, exc, value) == [log |-> log, exc |-> exc, value |-> value]

\* cursor.execute(...) / cursor.executemany(...)
DriverRun(kind, cur, statement, params, multi, drv) ==
    Block(<<EvRun(kind, cur, statement, params, multi)>>,
          IF drv.stage = "execute" THEN drv.exc ELSE NoExc, NoValue)

\* cursor.fetchone() / cursor.fetchall()
DriverFetch(kind, cur, drv, dictionary) ==
    Block(<<Ev(kind, cur)>>,
          IF drv.stage = "fetch" THEN drv.exc ELSE NoExc,
          IF drv.stage = "fetch" THEN NoValue
          ELSE IF kind = "fetchone"
               THEN IF drv.rows = <<>> THEN NoValue
                    ELSE [kind |-> "row", rows |-> <<Head(drv.rows)>>]
               ELSE [kind |-> IF dictionary THEN "dicts" ELSE "rows",
                     rows |-> drv.rows])

\* a; b: b runs only when a left no exception
Then(a, b) == IF a.exc # NoExc THEN a ELSE Block(a.log \o b.log, b.exc, b.value)

\* err.add_note(note)
AddNote(exc, note) == [exc EXCEPT !.notes = Append(@, note)]

StatementNote(statement) == <<"statement ", statement>>

NoNote == <<>>

\* ------------------------------------------------------ execution wrapper
TryExceptSwallows(body, note) ==
    IF IsConnectorError(body.exc) THEN Block(body.log \o <<Ev("debug", 0)>>, NoExc, NoValue)
    ELSE body

\* try: body / except connector.errors.Error as err: debug; [add_note]; raise
TryExcept(body, note) ==
    IF IsConnectorError(body.exc)
    THEN Block(body.log \o <<Ev("debug", 0)>>,
               IF note = NoNote THEN body.exc ELSE AddNote(body.exc, note),
               NoValue)
    ELSE body

ClosingOnlyOnError(cur, body) ==
    Block(<<Ev("cursor", cur)>> \o body.log
          \o (IF IsConnectorError(body.exc) THEN <<Ev("close", cur)>> ELSE <<>>),
          body.exc, body.value)

ClosingAfterRaise(cur, body) ==
    Block(<<Ev("cursor", cur)>> \o body.log
          \o (IF body.exc = NoExc THEN <<Ev("close", cur)>> ELSE <<>>),
          body.exc, body.value)

\* with closing(self.cnx.cursor()) as cursor: body
Closing(cur, body) ==
    Block(<<Ev("cursor", cur)>> \o body.log \o <<Ev("close", cur)>>,
          body.exc, body.value)

\* self.cnx.cursor() on a closed connection raises before any cursor exists
NotAvailable == [cls |-> "OperationalError", errno |-> -1, notes |-> <<>>]

WithCursorIgnoresClosed(body) == Closing(Len(cursors) + 1, body)

WithCursor(body) ==
    IF cnx = "open" THEN Closing(Len(cursors) + 1, body)
    ELSE Block(<<>>, NotAvailable, NoValue)

execute(statement, params, multi, drv) ==
    LET cur == Len(cursors) + 1
        params2 == Or(params, "{}")
        run == IF multi
               THEN Then(DriverRun("execute", cur, statement, "None", TRUE, drv),
                         Block(<<Ev("iterate", cur)>>, NoExc, NoValue))
               ELSE DriverRun("execute", cur, statement, params2, FALSE, drv)
    IN  WithCursor(TryExcept(run, NoNote))

ExecutemanyViaExecute(statement, rows, drv) ==
    LET cur == Len(cursors) + 1
        run == DriverRun("execute", cur, statement, rows, FALSE, drv)
    IN  WithCursor(TryExcept(run, StatementNote(statement)))

executemany(statement, rows, drv) ==
    LET cur == Len(cursors) + 1
        run == DriverRun("executemany", cur, statement, rows, FALSE, drv)
    IN  WithCursor(TryExcept(run, StatementNote(statement)))

FetchoneReturnsAll(statement, params, drv) ==
    LET cur == Len(cursors) + 1
        params2 == IF params = "None" THEN "{}" ELSE params
        run == Then(DriverRun("execute", cur, statement, params2, FALSE, drv),
                    DriverFetch("fetchall", cur, drv, FALSE))
    IN  WithCursor(TryExcept(run, NoNote))

fetchone(statement, params, drv) ==
    LET cur == Len(cursors) + 1
        params2 == IF params = "None" THEN "{}" ELSE params
        run == Then(DriverRun("execute", cur, statement, params2, FALSE, drv),
                    DriverFetch("fetchone", cur, drv, FALSE))
    IN  WithCursor(TryExcept(run, NoNote))

fetchall(statement, params, multi, dictionary, drv) ==
    LET cur == Len(cursors) + 1
        params2 == IF params = "None" THEN "{}" ELSE params
        run == Then(DriverRun("execute", cur, statement, params2, multi, drv),
                    DriverFetch("fetchall", cur, drv, dictionary))
    IN  WithCursor(TryExcept(run, StatementNote(statement)))

ExitReturnSuppresses(exc_value) == IF IsConnectorError(exc_value) THEN "True" ELSE "None"

\* what __exit__ returns: False after logging a database error, else None
ExitReturn(exc_value) == IF IsConnectorError(exc_value) THEN "False" ELSE "None"

\* the with statement: the exception leaves the block unless __exit__ returned
\* a true value
AfterExit(exc_value) ==
    IF exc_value # NoExc /\ ~Truthy(ExitReturn(exc_value)) THEN exc_value ELSE NoExc

\* ------------------------------------------------- handler specification
Count(log, kind, cur) ==
    Cardinality({i \in 1..Len(log) : log[i].ev = kind /\ log[i].cur = cur})

\* the table (the values of its auto-increment column), its counter and the
\* session's foreign_key_checks, before anything has run
NoDb == [rows |-> {}, auto_increment |-> 1, fk |-> TRUE]

\* no call before this one
NoPrev ==
    [op |-> "none", statement |-> "", params |-> "", found |-> NoDb,
     log |-> <<>>, exc |-> NoExc]

NoCall ==
    [op |-> "none", statement |-> "", params |-> "", multi |-> FALSE,
     drv |-> [stage |-> "none", exc |-> NoExc, rows |-> <<>>],
     was |-> "open", found |-> NoDb, log |-> <<>>, exc |-> NoExc,
     value |-> NoValue, prev |-> NoPrev]

\* the record of a finished call: its arguments, what the driver was going to
\* do, the connection state and the database it found, its events ending in
\* "return" or "raise", and what reached the caller
Called(op, statement, params, multi, drv, res) ==
    [op |-> op, statement |-> statement, params |-> params, multi |-> multi,
     drv |-> drv, was |-> cnx, found |-> db,
     log |-> res.log \o <<Ev(IF res.exc = NoExc THEN "return" ELSE "raise", 0)>>,
     exc |-> res.exc, value |-> res.value, prev |-> NoPrev]

\* the cursors after a call: the cursor it acquired, if any, with the number
\* of times its close() ran
CursorsAfter(res) ==
    LET cur == Len(cursors) + 1
    IN  IF Count(res.log, "cursor", cur) = 0 THEN cursors
        ELSE Append(cursors, Count(res.log, "close", cur))

RedactInPlace(mysql_options) ==
    [arg |-> DictSet(mysql_options, "password", "REDACTED"),
     ret |-> DictSet(mysql_options, "password", "REDACTED")]

RedactKeepsPassword(mysql_options) == [arg |-> mysql_options, ret |-> mysql_options]

\* redact_mysql_options(mysql_options): ret is the copy with its password
\* overwritten, arg is the caller's dict after the call (the copy is shallow
\* and update replaces a top-level value, so the argument stays as it was)
redact_mysql_options(mysql_options) ==
    [arg |-> mysql_options,
     ret |-> DictSet(mysql_options, "password", "REDACTED")]

\* the options the tests connect with
DefaultOptions ==
    <<[key |-> "host", val |-> "localhost"], [key |-> "password", val |-> "secret"]>>

\* the handler once __init__ has returned with a connection it opened itself:
\* given and cnx_given are what the caller passed, mysql_options the caller's
\* dict as it is now, drv what connector.connect did
Constructed ==
    [state |-> "ready", supplied |-> FALSE, exc |-> NoExc, log |-> <<>>,
     given |-> DefaultOptions,
     mysql_options |-> redact_mysql_options(DefaultOptions).arg,
     mysql_options_redacted |-> redact_mysql_options(DefaultOptions).ret,
     cnx_given |-> "None", drv |-> NoExc]

NotConstructed ==
    [state |-> "none", supplied |-> FALSE, exc |-> NoExc, log |-> <<>>,
     given |-> <<>>, mysql_options |-> <<>>, mysql_options_redacted |-> <<>>,
     cnx_given |-> "None", drv |-> NoExc]

\* retry not running
NoRetry ==
    [pc |-> "idle", script |-> <<>>, args |-> <<>>, base |-> 0, max_attempts |-> 0,
     attempt |-> 0, log |-> <<>>, exc |-> NoExc, value |-> <<>>]

\* a value of a result column: None (NULL) or an integer n, held as <<n>>
None == <<>>

Some(n) == <<n>>

\* reset_auto_increment not called
NoReset ==
    [pc |-> "idle", max_val |-> None, set_value |-> 0, result |-> None,
     exc |-> NoExc, log |-> <<>>]

Idle ==
    /\ rt = NoRetry
    /\ db = NoDb
    /\ ri = NoReset

InitHandler ==
    /\ cnx = "open"
    /\ cursors = <<>>
    /\ last = NoCall
    /\ ctor = Constructed
    /\ Idle

Init ==
    /\ args = NoArgs
    /\ built = NotBuilt
    /\ InitHandler

Finish(op, statement, params, multi, drv, res) ==
    /\ ctor.state = "ready"
    /\ last' = Called(op, statement, params, multi, drv, res)
    /\ cursors' = CursorsAfter(res)
    /\ UNCHANGED <<args, built, cnx, others>>

Execute ==
    /\ Len(cursors) < MaxCalls
    /\ \E statement \in STATEMENTS, params \in PARAMS, multi \in BOOLEAN,
          drv \in {d \in DRIVER : d.rows = <<>>} :
          Finish("execute", statement, params, multi, drv,
                 execute(statement, params, multi, drv))

ExecuteMany ==
    /\ Len(cursors) < MaxCalls
    /\ \E statement \in STATEMENTS, rows \in {"[]", "[r1, r2]"},
          drv \in {d \in DRIVER : d.rows = <<>>} :
          Finish("executemany", statement, rows, FALSE, drv,
                 executemany(statement, rows, drv))

FetchOne ==
    /\ Len(cursors) < MaxCalls
    /\ \E statement \in STATEMENTS, params \in PARAMS, drv \in DRIVER_FETCH :
          Finish("fetchone", statement, params, FALSE, drv,
                 fetchone(statement, params, drv))

FetchAll ==
    /\ Len(cursors) < MaxCalls
    /\ \E statement \in STATEMENTS, params \in PARAMS, multi \in BOOLEAN,
          dictionary \in BOOLEAN, drv \in DRIVER_FETCH :
          Finish("fetchall", statement, params, multi, drv,
                 fetchall(statement, params, multi, dictionary, drv))

CnxCloseRaisesWhenClosed(c) ==
    [cnx |-> "closed", exc |-> IF c = "closed" THEN NotAvailable ELSE NoExc]

\* self.cnx.close(): the connection is closed afterwards; nothing is raised,
\* on an open connection or on a closed one
CnxClose(c) == [cnx |-> "closed", exc |-> NoExc]

\* close(): self.cnx.close(), which raises nothing on a closed connection
Close ==
    LET r == CnxClose(cnx)
    IN  /\ ctor.state = "ready"
        /\ cnx' = r.cnx
        /\ last' = [NoCall EXCEPT
                      !.op = "close", !.was = cnx,
                      !.log = <<Ev("cnx.close", 0),
                                Ev(IF r.exc = NoExc THEN "return" ELSE "raise", 0)>>,
                      !.exc = r.exc]
        /\ UNCHANGED <<args, built, cursors, others>>

ExitLeavesSupplied ==
    \E exc_value \in EXCEPTIONS \cup {NoExc} :
        LET r == IF ctor.supplied THEN [cnx |-> cnx, exc |-> NoExc] ELSE CnxClose(cnx)
            out == IF r.exc # NoExc THEN r.exc ELSE AfterExit(exc_value)
        IN  /\ ctor.state = "ready"
            /\ cnx' = r.cnx
            /\ last' = [NoCall EXCEPT
                          !.op = "exit", !.was = cnx,
                          !.drv = [stage |-> "block", exc |-> exc_value, rows |-> <<>>],
                          !.log = <<Ev("cnx.close", 0)>>
                                  \o (IF r.exc = NoExc /\ IsConnectorError(exc_value)
                                      THEN <<LogEv("critical", ctor.mysql_options_redacted)>>
                                      ELSE <<>>)
                                  \o <<Ev(IF out = NoExc THEN "return" ELSE "raise", 0)>>,
                          !.exc = out]
            /\ UNCHANGED <<args, built, cursors, others>>

\* leaving the with block, with the exception raised in it (NoExc: none)
Exit ==
    \E exc_value \in EXCEPTIONS \cup {NoExc} :
        LET r == CnxClose(cnx)
            out == IF r.exc # NoExc THEN r.exc ELSE AfterExit(exc_value)
        IN  /\ ctor.state = "ready"
            /\ cnx' = r.cnx
            /\ last' = [NoCall EXCEPT
                          !.op = "exit", !.was = cnx,
                          !.drv = [stage |-> "block", exc |-> exc_value, rows |-> <<>>],
                          !.log = <<Ev("cnx.close", 0)>>
                                  \o (IF r.exc = NoExc /\ IsConnectorError(exc_value)
                                      THEN <<LogEv("critical", ctor.mysql_options_redacted)>>
                                      ELSE <<>>)
                                  \o <<Ev(IF out = NoExc THEN "return" ELSE "raise", 0)>>,
                          !.exc = out]
            /\ UNCHANGED <<args, built, cursors, others>>

Next == Execute \/ ExecuteMany \/ FetchOne \/ FetchAll \/ Close \/ Exit

Spec == Init /\ [][Next]_vars

\* the builders alone: Init draws the arguments, one action applies the builder
InitBuild ==
    /\ args \in UpsertArgs \cup OnDupArgs \cup InsertSelectArgs \cup InsertSelectStrArgs
    /\ built = NotBuilt
    /\ InitHandler

BuildUpsert ==
    /\ args.fn = "upsert"
    /\ ~built.done
    /\ built' = [done |-> TRUE,
                 text |-> insert_on_duplicate_key_update_statement(
                              args.table, args.cols, args.keys,
                              IF args.on_dup_given THEN args.override
                              ELSE OnDupDefault)]
    /\ UNCHANGED <<args, cnx, cursors, last, others>>

BuildOnDup ==
    /\ args.fn = "on_dup"
    /\ ~built.done
    /\ built' = [done |-> TRUE, text |-> on_dup(args.cols)]
    /\ UNCHANGED <<args, cnx, cursors, last, others>>

BuildInsertSelect ==
    /\ args.fn = "insert_select"
    /\ ~built.done
    /\ built' = [done |-> TRUE,
                 text |-> insert_select_on_duplicate_key_update_statement(
                              args.table_from, args.table, args.colmap,
                              [str |-> FALSE, val |-> args.keys])]
    /\ UNCHANGED <<args, cnx, cursors, last, others>>

BuildInsertSelectStr ==
    /\ args.fn = "insert_select_str"
    /\ ~built.done
    /\ built' = [done |-> TRUE,
                 text |-> insert_select_on_duplicate_key_update_statement(
                              args.table_from, args.table, args.colmap,
                              [str |-> TRUE, val |-> args.keys_str])]
    /\ UNCHANGED <<args, cnx, cursors, last, others>>

NextBuild == BuildUpsert \/ BuildOnDup \/ BuildInsertSelect \/ BuildInsertSelectStr

SpecBuild == InitBuild /\ [][NextBuild]_vars

\* -------------------------------------------- the handler from __init__ on
\* what the caller passes as cnx: nothing, or a connection of its own
SUPPLIED == {"None", "open", "closed"}

\* the mysql_options the caller passes: with the password in any place, or
\* without one
OPTIONS ==
    {<<[key |-> "host", val |-> h], [key |-> "password", val |-> p]>> :
        h \in {"localhost", "badhost"}, p \in {"secret", "hunter2"}}
    \cup {<<[key |-> "password", val |-> "secret"], [key |-> "host", val |-> "localhost"]>>,
          <<[key |-> "host", val |-> "localhost"]>>}

ConnectTwice(mysql_options_redacted, outcome) ==
    IF IsConnectorError(outcome)
    THEN Block(<<Ev("connect", 0), Ev("connect", 0),
                 LogEv("critical", mysql_options_redacted)>>, outcome, NoValue)
    ELSE Block(<<Ev("connect", 0)>>, outcome, NoValue)

\* try: self.cnx = connector.connect(**mysql_options)
\* except connector.errors.Error: logger.critical(...); raise
Connect(mysql_options_redacted, outcome) ==
    IF IsConnectorError(outcome)
    THEN Block(<<Ev("connect", 0), LogEv("critical", mysql_options_redacted)>>,
               outcome, NoValue)
    ELSE Block(<<Ev("connect", 0)>>, outcome, NoValue)

\* __init__(mysql_options, cnx): the options and their redacted copy are
\* stored; a supplied connection is kept as it is; otherwise the redacted
\* options are logged and connector.connect runs, and an error from it leaves
\* no handler
Construct ==
    /\ ctor.state = "none"
    /\ \E options \in OPTIONS, given \in SUPPLIED, outcome \in EXCEPTIONS \cup {NoExc} :
          LET r == redact_mysql_options(options)
              made == [NotConstructed EXCEPT
                         !.given = options, !.mysql_options = r.arg,
                         !.mysql_options_redacted = r.ret,
                         !.cnx_given = given, !.drv = outcome]
              res == Connect(r.ret, outcome)
              log == <<LogEv("debug.mysql_options", r.ret)>> \o res.log
          IN  IF given # "None"
              THEN /\ outcome = NoExc
                   /\ cnx' = given
                   /\ ctor' = [made EXCEPT !.state = "ready", !.supplied = TRUE,
                                           !.log = <<Ev("return", 0)>>]
              ELSE IF res.exc = NoExc
              THEN /\ cnx' = "open"
                   /\ ctor' = [made EXCEPT !.state = "ready",
                                           !.log = log \o <<Ev("return", 0)>>]
              ELSE /\ cnx' = cnx
                   /\ ctor' = [made EXCEPT !.state = "failed", !.exc = res.exc,
                                           !.log = log \o <<Ev("raise", 0)>>]
    /\ UNCHANGED <<args, built, cursors, last, rt, db, ri>>

InitLife ==
    /\ args = NoArgs
    /\ built = NotBuilt
    /\ cnx = "none"
    /\ cursors = <<>>
    /\ last = NoCall
    /\ ctor = NotConstructed
    /\ Idle

\* a call on the handler while its connection is open
LifeCall ==
    /\ cnx = "open"
    /\ Len(cursors) < MaxLifeCalls
    /\ (Execute \/ ExecuteMany \/ FetchOne \/ FetchAll)

NextLife == Construct \/ LifeCall \/ Close \/ Exit

SpecLife == InitLife /\ [][NextLife]_vars

\* ---------------------------------------------------------------- retry
\* the error codes that count as transient: connection lost, lock wait timeout
CR_SERVER_LOST == 2013
CR_SERVER_LOST_EXTENDED == 2055
ER_LOCK_WAIT_TIMEOUT == 1205

TRANSIENT == {CR_SERVER_LOST, CR_SERVER_LOST_EXTENDED, ER_LOCK_WAIT_TIMEOUT}

TransientAnyError(exc) == IsConnectorError(exc)

\* a database error whose code is one of the transient ones
Transient(exc) == IsConnectorError(exc) /\ exc.errno \in TRANSIENT

BackoffFromOne(base, attempt) == base ^ (attempt + 1)

\* the seconds slept after failed attempt number attempt (from 0)
Backoff(base, attempt) == base ^ attempt

ExhaustedOneLate(attempt, max_attempts) == attempt >= max_attempts

\* no attempt is left after attempt number attempt (from 0)
Exhausted(attempt, max_attempts) == attempt + 1 >= max_attempts

\* what one call of the operation does: it returns (NoExc) or raises
OUTCOMES ==
    {NoExc}
    \cup {[cls |-> "Error", errno |-> e, notes |-> <<>>] : e \in TRANSIENT \cup {-1}}

BASES == {2, 3}

RETRY_ARGS == {<<"select * from XXX", "()">>, <<"insert into t values (%s)", "(1,)">>}

\* the outcome of call number n of the operation; after the script's end the
\* operation goes on as in its last call
Outcome(script, n) == script[IF n <= Len(script) THEN n ELSE Len(script)]

Calls(log) == Cardinality({i \in 1..Len(log) : log[i].ev = "call"})

\* retry(operation, *args, base, max_attempts) has been called
InitRetry ==
    /\ args = NoArgs
    /\ built = NotBuilt
    /\ cnx = "open"
    /\ cursors = <<>>
    /\ last = NoCall
    /\ ctor = Constructed
    /\ db = NoDb
    /\ ri = NoReset
    /\ \E script \in [1..MaxAttempts -> OUTCOMES], a \in RETRY_ARGS,
          base \in BASES, max_attempts \in 1..MaxAttempts :
          rt = [NoRetry EXCEPT !.pc = "call", !.script = script, !.args = a,
                               !.base = base, !.max_attempts = max_attempts]

\* one attempt: operation(*args); its value is returned; an error that is not
\* transient, or a transient one on the last attempt, is raised; after any
\* other transient error retry goes to sleep
RetryCall ==
    /\ rt.pc = "call"
    /\ LET n == Calls(rt.log) + 1
           outcome == Outcome(rt.script, n)
           log == Append(rt.log, [ev |-> "call", args |-> rt.args, secs |-> 0])
       IN  rt' = IF outcome = NoExc
                 THEN [rt EXCEPT !.pc = "returned", !.log = log, !.value = rt.args]
                 ELSE IF ~Transient(outcome) \/ Exhausted(rt.attempt, rt.max_attempts)
                 THEN [rt EXCEPT !.pc = "raised", !.log = log, !.exc = outcome]
                 ELSE [rt EXCEPT !.pc = "sleep", !.log = log, !.exc = outcome]
    /\ UNCHANGED <<args, built, cnx, cursors, last, ctor, db, ri>>

\* sleep(base ** attempt), then the next attempt
RetrySleep ==
    /\ rt.pc = "sleep"
    /\ rt' = [rt EXCEPT
                !.pc = "call",
                !.attempt = rt.attempt + 1,
                !.log = Append(rt.log, [ev |-> "sleep", args |-> <<>>,
                                        secs |-> Backoff(rt.base, rt.attempt)])]
    /\ UNCHANGED <<args, built, cnx, cursors, last, ctor, db, ri>>

NextRetry == RetryCall \/ RetrySleep

SpecRetry == InitRetry /\ [][NextRetry]_vars

\* retry blocks its thread and is never cancelled: a step that can be taken is
\* taken
SpecRetryFair == SpecRetry /\ WF_vars(NextRetry)

\* ------------------------------------------------------------- database
\* max(col) over the table
Max(S) == CHOOSE m \in S : \A x \in S : x <= m

MaxOrZero(S) == IF S = {} THEN Some(0) ELSE Some(Max(S))

\* select max(col): NULL, that is None, on an empty table
MaxOrNull(S) == IF S = {} THEN None ELSE Some(Max(S))

TABLE == "t"
COL == "id"

SelectMax(col, table) == <<"select max(", col, ") from ", table>>

AlterValueNoIncrement(max_val) == max_val[1]

\* {max_val+1}
AlterValue(max_val) == max_val[1] + 1

AlterAutoIncrement(table, n) == <<"alter table ", table, " auto_increment = ", n>>

SelectAutoIncrement(table) ==
    <<"select auto_increment from information_schema.tables ",
      "where table_schema = database() and table_name = \"", table, "\"">>

TruncateStatementRestoresArg(table, foreign_key_checks_enabled) ==
    <<<<"set foreign_key_checks = ", 0>>,
      <<"truncate table ", table>>,
      <<"set foreign_key_checks = ", IF foreign_key_checks_enabled THEN 1 ELSE 0>>>>

\* the batch of truncate: checks off, truncate, checks on, whatever
\* foreign_key_checks_enabled is
TruncateStatement(table, foreign_key_checks_enabled) ==
    <<<<"set foreign_key_checks = ", 0>>,
      <<"truncate table ", table>>,
      <<"set foreign_key_checks = ", 1>>>>

\* what one statement does to the database; the counter is never set below
\* max(col) + 1
Apply(d, st) ==
    CASE st[1] = "set foreign_key_checks = " -> [d EXCEPT !.fk = (st[2] = 1)]
      [] st[1] = "truncate table " -> [d EXCEPT !.rows = {}, !.auto_increment = 1]
      [] st[1] = "alter table " ->
            [d EXCEPT !.auto_increment =
                IF d.rows # {} /\ st[4] <= Max(d.rows) THEN Max(d.rows) + 1 ELSE st[4]]
      [] OTHER -> d

\* the first n statements of a batch, one after the other
RECURSIVE ApplyBatch(_, _, _)
ApplyBatch(d, batch, n) ==
    IF n = 0 THEN d ELSE Apply(ApplyBatch(d, batch, n - 1), batch[n])

\* the rows a query finds
DbRows(d, st) ==
    CASE st[1] = "select max(" -> <<<<MaxOrNull(d.rows)>>>>
      [] st[1] = "select auto_increment from information_schema.tables "
            -> <<<<Some(d.auto_increment)>>>>
      [] OTHER -> <<>>

\* the server going away in the middle of a call
ServerGone == [cls |-> "OperationalError", errno |-> -1, notes |-> <<>>]

FAILS == {NoExc, ServerGone}

\* the driver's part of a call against database d
DbDriver(d, st, fail) ==
    IF fail # NoExc THEN [stage |-> "execute", exc |-> fail, rows |-> <<>>]
    ELSE [stage |-> "none", exc |-> NoExc, rows |-> DbRows(d, st)]

TypeError == [cls |-> "TypeError", errno |-> -1, notes |-> <<>>]

\* value[0]: None is not subscriptable
Subscript0(res) ==
    IF res.exc # NoExc THEN res
    ELSE IF res.value.kind = "None" THEN Block(res.log, TypeError, NoValue)
    ELSE Block(res.log, NoExc, res.value.rows[1][1])

\* a table with its counter above every value in it
InitDb ==
    /\ args = NoArgs
    /\ built = NotBuilt
    /\ cnx = "open"
    /\ cursors = <<>>
    /\ last = NoCall
    /\ ctor = Constructed
    /\ rt = NoRetry
    /\ ri = NoReset
    /\ \E R \in SUBSET (1..MaxId) :
          \E a \in (IF R = {} THEN 1 ELSE Max(R) + 1)..(MaxId + 1) :
              db = [rows |-> R, auto_increment |-> a, fk |-> TRUE]

\* another connection inserts a row, which takes the counter's value
WriterInsert ==
    /\ db.auto_increment <= MaxId
    /\ db' = [db EXCEPT !.rows = @ \cup {db.auto_increment},
                        !.auto_increment = @ + 1]
    /\ ri' = IF ri.pc \in {"idle", "raised"} THEN ri
             ELSE [ri EXCEPT !.log = Append(@, Ev("writer.insert", 0))]
    /\ UNCHANGED <<args, built, cnx, cursors, last, ctor, rt>>

\* truncate(table, foreign_key_checks_enabled): the batch goes through
\* execute with multi=True; a batch that fails at statement k has run the
\* k - 1 statements before it
Truncate ==
    /\ ri.pc = "idle"
    /\ last.op = "none"
    /\ \E foreign_key_checks_enabled \in BOOLEAN, fail \in FAILS, k \in 1..3 :
          LET statement == TruncateStatement(TABLE, foreign_key_checks_enabled)
              drv == [stage |-> IF fail = NoExc THEN "none" ELSE "execute",
                      exc |-> fail, rows |-> <<>>]
              res == execute(statement, "None", TRUE, drv)
          IN  /\ fail = NoExc => k = Len(statement)
              /\ db' = ApplyBatch(db, statement,
                                  IF fail = NoExc THEN Len(statement) ELSE k - 1)
              /\ last' = Called("truncate", statement, foreign_key_checks_enabled,
                                TRUE, drv, res)
              /\ cursors' = CursorsAfter(res)
    /\ UNCHANGED <<args, built, cnx, ctor, rt, ri>>

\* reset_auto_increment, first statement: max_val = fetchone(select max)[0]
ResetRead ==
    /\ ri.pc = "idle"
    /\ \E fail \in FAILS :
          LET statement == SelectMax(COL, TABLE)
              res == Subscript0(fetchone(statement, "None",
                                         DbDriver(db, statement, fail)))
          IN  /\ ri' = IF res.exc # NoExc
                       THEN [ri EXCEPT !.pc = "raised", !.exc = res.exc, !.log = res.log]
                       ELSE [ri EXCEPT !.pc = "set", !.max_val = res.value,
                                       !.log = res.log]
              /\ cursors' = CursorsAfter(res)
    /\ UNCHANGED <<args, built, cnx, last, ctor, rt, db>>

ResetSetFresh ==
    /\ ri.pc = "set"
    /\ \E fail \in FAILS :
          LET n == AlterValue(MaxOrNull(db.rows))
              statement == AlterAutoIncrement(TABLE, n)
              res == execute(statement, "None", FALSE, DbDriver(db, statement, fail))
          IN  /\ ri.max_val # None
              /\ ri' = IF res.exc # NoExc
                       THEN [ri EXCEPT !.pc = "raised", !.exc = res.exc,
                                       !.log = @ \o res.log]
                       ELSE [ri EXCEPT !.pc = "reread", !.set_value = n,
                                       !.log = @ \o res.log]
              /\ db' = IF res.exc # NoExc THEN db ELSE Apply(db, statement)
              /\ cursors' = CursorsAfter(res)
    /\ UNCHANGED <<args, built, cnx, last, ctor, rt>>

\* second statement: alter table ... auto_increment = max_val + 1; on an
\* empty table max_val is None and max_val + 1 raises TypeError
ResetSet ==
    /\ ri.pc = "set"
    /\ IF ri.max_val = None
       THEN /\ ri' = [ri EXCEPT !.pc = "raised", !.exc = TypeError]
            /\ UNCHANGED <<db, cursors>>
       ELSE \E fail \in FAILS :
               LET n == AlterValue(ri.max_val)
                   statement == AlterAutoIncrement(TABLE, n)
                   res == execute(statement, "None", FALSE,
                                  DbDriver(db, statement, fail))
               IN  /\ ri' = IF res.exc # NoExc
                            THEN [ri EXCEPT !.pc = "raised", !.exc = res.exc,
                                            !.log = @ \o res.log]
                            ELSE [ri EXCEPT !.pc = "reread", !.set_value = n,
                                            !.log = @ \o res.log]
                   /\ db' = IF res.exc # NoExc THEN db ELSE Apply(db, statement)
                   /\ cursors' = CursorsAfter(res)
    /\ UNCHANGED <<args, built, cnx, last, ctor, rt>>

\* third statement: the counter is read back and returned
ResetReread ==
    /\ ri.pc = "reread"
    /\ \E fail \in FAILS :
          LET statement == SelectAutoIncrement(TABLE)
              res == Subscript0(fetchone(statement, "None",
                                         DbDriver(db, statement, fail)))
          IN  /\ ri' = IF res.exc # NoExc
                       THEN [ri EXCEPT !.pc = "raised", !.exc = res.exc,
                                       !.log = @ \o res.log]
                       ELSE [ri EXCEPT !.pc = "done", !.result = res.value,
                                       !.log = @ \o res.log]
              /\ cursors' = CursorsAfter(res)
    /\ UNCHANGED <<args, built, cnx, last, ctor, rt, db>>

NextDb == WriterInsert \/ Truncate \/ ResetRead \/ ResetSet \/ ResetReread

SpecDb == InitDb /\ [][NextDb]_vars

\* ------------------------------------------------------- reading a text
\* the first position of token tok in text, 0 when it does not occur
IndexOf(text, tok) ==
    IF \E i \in 1..Len(text) : text[i] = tok
    THEN CHOOSE i \in 1..Len(text) :
            text[i] = tok /\ \A j \in 1..(i - 1) : text[j] # tok
    ELSE 0

Before(text, tok) == SubSeq(text, 1, IndexOf(text, tok) - 1)

After(text, tok) == SubSeq(text, IndexOf(text, tok) + 1, Len(text))

Between(text, tokA, tokB) == Before(After(text, tokA), tokB)

RECURSIVE Split(_, _)
Split(text, sep) ==
    IF IndexOf(text, sep) = 0 THEN <<text>>
    ELSE <<Before(text, sep)>> \o Split(After(text, sep), sep)

\* the comma-separated items of a list text; the empty text lists nothing
Items(text) == IF text = <<>> THEN <<>> ELSE Split(text, ",")

\* ------------------------------------------------- table specification
\* testtable: id int not null auto_increment primary key,
\* first_name varchar(45) default "AA" not null
TESTTABLE == <<"testtable">>
ID == <<"id">>
FIRST_NAME == <<"first_name">>
FIRST_NAME_DEFAULT == "AA"

IDS == {1, 2}
FIRST_NAMES == {"Ann", "Bob"}

\* a stored row
Row(id, first_name) == [id |-> id, first_name |-> first_name]

\* f"insert into {table} (id, first_name) values (%s,%s)"
InsertStatement(table, cols) ==
    <<"insert into ">> \o table \o <<" (">> \o Join(<<",">>, cols)
    \o <<") values (">> \o Placeholders(cols) \o <<")">>

\* f"select id, first_name from {table} order by id"
SelectOrdered(table) ==
    <<"select ">> \o Join(<<",">>, <<ID, FIRST_NAME>>) \o <<" from ">> \o table
    \o <<" order by ">> \o ID

\* the server's reading of an insert statement: its column list, whether it
\* has an on-duplicate-key clause, and the assignments of that clause
InsertCols(st) == Items(Between(st, " (", ") values ("))

HasOnDup(st) == IndexOf(st, ") as vals on duplicate key update ") # 0

OnDupItems(st) == Items(After(st, ") as vals on duplicate key update "))

Position(cols, col) ==
    IF \E i \in 1..Len(cols) : cols[i] = col
    THEN CHOOSE i \in 1..Len(cols) : cols[i] = col
    ELSE 0

\* the row the statement offers for insertion (vals): a column the statement
\* does not list takes its default, the next counter value for id
Offered(d, cols, row) ==
    Row(IF Position(cols, ID) = 0 THEN d.auto_increment
        ELSE row[Position(cols, ID)],
        IF Position(cols, FIRST_NAME) = 0 THEN FIRST_NAME_DEFAULT
        ELSE row[Position(cols, FIRST_NAME)])

ColumnOf(r, col) == IF col = ID THEN r.id ELSE r.first_name

SetColumn(r, col, v) ==
    IF col = ID THEN [r EXCEPT !.id = v] ELSE [r EXCEPT !.first_name = v]

\* col=vals.col2, ... applied to the stored row r
RECURSIVE Assign(_, _, _)
Assign(r, vals, items) ==
    IF items = <<>> THEN r
    ELSE Assign(SetColumn(r, Before(Head(items), "=vals."),
                          ColumnOf(vals, After(Head(items), "=vals."))),
                vals, Tail(items))

DuplicateEntry == [cls |-> "IntegrityError", errno |-> 1062, notes |-> <<>>]
SyntaxError == [cls |-> "ProgrammingError", errno |-> 1064, notes |-> <<>>]

\* one row of an insert: a new primary key is inserted and moves the counter
\* past it; an existing one is updated by the clause, or is a duplicate entry
InsertRow(s, st, row) ==
    LET d == s.db
        vals == Offered(d, InsertCols(st), row)
        old == {r \in d.rows : r.id = vals.id}
    IN  IF s.exc # NoExc THEN s
        ELSE IF old = {}
        THEN [db |-> [d EXCEPT !.rows = @ \cup {vals},
                               !.auto_increment =
                                   IF vals.id >= @ THEN vals.id + 1 ELSE @],
              exc |-> NoExc]
        ELSE IF ~HasOnDup(st) THEN [db |-> d, exc |-> DuplicateEntry]
        ELSE [db |-> [d EXCEPT !.rows =
                         (@ \ old) \cup {Assign(r, vals, OnDupItems(st)) : r \in old}],
              exc |-> NoExc]

RECURSIVE InsertRows(_, _, _, _)
InsertRows(s, st, rows, n) ==
    IF n = 0 THEN s ELSE InsertRow(InsertRows(s, st, rows, n - 1), st, rows[n])

\* cursor.executemany(statement, rows) of an insert against database d: the
\* rows in their order; a clause without assignments is no statement, and a
\* failed statement leaves the table as it was
InsertMany(d, st, rows) ==
    LET s == InsertRows([db |-> d, exc |-> NoExc], st, rows, Len(rows))
    IN  IF HasOnDup(st) /\ OnDupItems(st) = <<>> THEN [db |-> d, exc |-> SyntaxError]
        ELSE IF s.exc # NoExc THEN [db |-> d, exc |-> s.exc]
        ELSE s

\* order by id, each row as the tuple (id, first_name)
RECURSIVE OrderedById(_)
OrderedById(R) ==
    IF R = {} THEN <<>>
    ELSE LET m == CHOOSE r \in R : \A q \in R : r.id <= q.id
         IN  <<<<m.id, m.first_name>>>> \o OrderedById(R \ {m})

Raises(exc) ==
    IF exc = NoExc THEN [stage |-> "none", exc |-> NoExc, rows |-> <<>>]
    ELSE [stage |-> "execute", exc |-> exc, rows |-> <<>>]

\* the rows a caller passes for the columns cols
ROWS(cols) ==
    IF cols = <<ID, FIRST_NAME>> THEN {<<i, f>> : i \in IDS, f \in FIRST_NAMES}
    ELSE IF cols = <<ID>> THEN {<<i>> : i \in IDS}
    ELSE {<<f>> : f \in FIRST_NAMES}

Batches(R) == UNION {[1..n -> R] : n \in 0..MaxBatch}

InsertOnDuplicateKeyUpdatePlainInsert(table, cols, keys, rows, override) ==
    [statement |-> InsertStatement(table, cols), rows |-> rows]

\* insert_on_duplicate_key_update: the executemany call it makes
insert_on_duplicate_key_update(table, cols, keys, rows, override) ==
    [statement |-> insert_on_duplicate_key_update_statement(table, cols, keys, override),
     rows |-> rows]

InitTable ==
    /\ args = NoArgs
    /\ built = NotBuilt
    /\ cnx = "open"
    /\ cursors = <<>>
    /\ last = NoCall
    /\ ctor = Constructed
    /\ rt = NoRetry
    /\ ri = NoReset
    /\ \E R \in SUBSET {Row(1, "Ann"), Row(2, "Bob")} :
          db = [rows |-> R,
                auto_increment |-> IF R = {} THEN 1 ELSE Max({r.id : r \in R}) + 1,
                fk |-> TRUE]

\* a call on the table, remembered with the call made before it
TableCall(op, statement, params, out, drv, res) ==
    /\ last' = [Called(op, statement, params, FALSE, drv, res) EXCEPT
                   !.prev = [op |-> last.op, statement |-> last.statement,
                             params |-> last.params, found |-> last.found,
                             log |-> last.log, exc |-> last.exc]]
    /\ cursors' = CursorsAfter(res)
    /\ db' = out.db
    /\ UNCHANGED <<args, built, cnx, ctor, rt, ri>>

\* mysql_handler.insert_on_duplicate_key_update(table, cols, keys, rows)
Upsert ==
    /\ Len(cursors) < MaxTableCalls
    /\ \E cols \in {<<ID, FIRST_NAME>>, <<ID>>, <<FIRST_NAME>>} :
          \E rows \in Batches(ROWS(cols)) :
              LET call == insert_on_duplicate_key_update(TESTTABLE, cols, <<ID>>,
                                                         rows, OnDupDefault)
                  out == InsertMany(db, call.statement, call.rows)
              IN  TableCall("insert_on_duplicate_key_update", call.statement,
                            call.rows, out, Raises(out.exc),
                            executemany(call.statement, call.rows, Raises(out.exc)))

\* mysql_handler.executemany("insert into testtable (id,first_name) ...", rows)
InsertRowsMany ==
    /\ Len(cursors) < MaxTableCalls
    /\ \E rows \in Batches(ROWS(<<ID, FIRST_NAME>>)) :
          LET statement == InsertStatement(TESTTABLE, <<ID, FIRST_NAME>>)
              out == InsertMany(db, statement, rows)
          IN  TableCall("executemany", statement, rows, out, Raises(out.exc),
                        executemany(statement, rows, Raises(out.exc)))

\* mysql_handler.fetchall("select id,first_name from testtable order by id")
SelectRows ==
    /\ Len(cursors) < MaxTableCalls
    /\ LET statement == SelectOrdered(TESTTABLE)
           drv == [stage |-> "none", exc |-> NoExc, rows |-> OrderedById(db.rows)]
       IN  TableCall("fetchall", statement, "None", [db |-> db, exc |-> NoExc],
                     drv, fetchall(statement, "None", FALSE, FALSE, drv))

NextTable == Upsert \/ InsertRowsMany \/ SelectRows

SpecTable == InitTable /\ [][NextTable]_vars

StrictlyIncreasing(f) == \A i, j \in DOMAIN f : i < j => f[i] < f[j]

Pair(name) == name \o <<"=vals.">> \o name

UpsertBuilt == built.done /\ args.fn = "upsert"

UpsertClause == After(built.text, ") as vals on duplicate key update ")

\* ------------------------------------------------------------------ C1
\* C1: with keys a subset of cols and no override, the update clause of
\* insert_on_duplicate_key_update_statement lists exactly the columns of cols
\* that are not in keys, in their relative order, each as name=vals.name,
\* joined by commas.
C1_UpdateClauseListsNonKeys ==
    (/\ UpsertBuilt
     /\ args.override = <<>>
     /\ \A j \in 1..Len(args.keys) : \E i \in 1..Len(args.cols) : args.cols[i] = args.keys[j])
    => LET items == Items(UpsertClause)
           nonkey == {i \in 1..Len(args.cols) :
                        \A j \in 1..Len(args.keys) : args.keys[j] # args.cols[i]}
       IN  /\ Len(items) = Cardinality(nonkey)
           /\ \E f \in [1..Len(items) -> nonkey] :
                /\ StrictlyIncreasing(f)
                /\ \A n \in 1..Len(items) : items[n] = Pair(args.cols[f[n]])

C1_Witness ==
    /\ UpsertBuilt
    /\ args.table = <<"t">>
    /\ args.cols = <<(<<"a">>), (<<"b">>), (<<"a", "b">>)>>
    /\ args.keys = <<(<<"b">>)>>
    /\ args.override = <<>>
    /\ built.text = <<"insert into ", "t", " (", "a", ",", "b", ",", "a", "b",
                      ") values (", "%s", ",", "%s", ",", "%s",
                      ") as vals on duplicate key update ",
                      "a", "=vals.", "a", ",", "a", "b", "=vals.", "a", "b">>

\* ------------------------------------------------------------------ C2
\* C2: for non-empty cols the statement is 'insert into', the table, the
\* columns of cols comma-joined in the given order (keys included), one %s
\* per column comma-joined, then 'as vals on duplicate key update' and the
\* clause: as many placeholders as columns.
C2_StatementShape ==
    (UpsertBuilt /\ args.cols # <<>>)
    => LET t == built.text
           col_list == Items(Between(t, " (", ") values ("))
           holders == Items(Between(t, ") values (",
                                    ") as vals on duplicate key update "))
       IN  /\ t[1] = "insert into "
           /\ Between(t, "insert into ", " (") = args.table
           /\ col_list = args.cols
           /\ Len(holders) = Len(args.cols)
           /\ \A i \in 1..Len(holders) : holders[i] = <<"%s">>
           /\ Len(t) = Len(args.table) + Len(Join(<<",">>, col_list))
                       + Len(Join(<<",">>, holders)) + Len(UpsertClause) + 4

C2_Witness ==
    /\ UpsertBuilt
    /\ Len(args.cols) = MaxCols
    /\ args.keys = <<args.cols[1]>>
    /\ Len(Items(Between(built.text, ") values (",
                         ") as vals on duplicate key update "))) = MaxCols

\* ------------------------------------------------------------------ C5
\* C5: a given (non-empty) override is the update clause verbatim, whatever
\* cols and keys are; the column list and the placeholders come from cols
\* as they do without an override.
C5_OverrideVerbatim ==
    (UpsertBuilt /\ args.override # <<>>)
    => LET t == built.text
           plain == insert_on_duplicate_key_update_statement(
                        args.table, args.cols, args.keys, <<>>)
           cut == ") as vals on duplicate key update "
       IN  /\ UpsertClause = args.override
           /\ Before(t, cut) = Before(plain, cut)
           /\ Items(Between(t, " (", ") values (")) = args.cols
           /\ Items(Between(t, ") values (", cut))
                = [i \in 1..Len(args.cols) |-> <<"%s">>]

C5_Witness ==
    /\ UpsertBuilt
    /\ args.override = <<"b", "=UPPER(vals.", "b", ")">>
    /\ args.cols = <<(<<"a">>), (<<"b">>)>>
    /\ args.keys = <<(<<"a">>)>>
    /\ UpsertClause = <<"b", "=UPPER(vals.", "b", ")">>

InsertSelectBuilt == built.done /\ args.fn = "insert_select"

DestCols == [i \in 1..Len(args.colmap) |-> args.colmap[i].val]

DistinctDest == \A i, j \in 1..Len(DestCols) : DestCols[i] = DestCols[j] => i = j

DestList == Items(Between(built.text, " (", ") select * from (select "))

SelectList == Items(Between(built.text, ") select * from (select ", " from "))

AliasList == Items(Between(built.text, ") as vals(", ") on duplicate key update "))

InsertSelectClause == Items(After(built.text, ") on duplicate key update "))

AliasName(i) == <<"alias", Digit(i)>>

Aligned ==
    LET n == Len(args.colmap)
    IN  /\ Len(DestList) = n
        /\ Len(SelectList) = n
        /\ Len(AliasList) = n
        /\ \A i \in 1..n :
             /\ DestList[i] = args.colmap[i].val
             /\ SelectList[i] = args.colmap[i].key
             /\ AliasList[i] = AliasName(i - 1)

\* C3 as stated, for every column_map: the destination list, the select-list
\* and the alias list have length n and agree position by position.
C3_AlignedForEveryMap == InsertSelectBuilt => Aligned

\* C3 (amended): for every column_map whose destination columns are pairwise
\* distinct, the destination list, the select-list and vals(alias0,...) have
\* the same length n and position i holds the i-th destination, the i-th
\* source expression and alias{i}.
C3_AlignedForDistinctDest == (InsertSelectBuilt /\ DistinctDest) => Aligned

C3_Witness ==
    /\ InsertSelectBuilt
    /\ args.colmap = <<[key |-> <<"s">>, val |-> <<"a">>],
                       [key |-> <<"b">>, val |-> <<"a", "b">>],
                       [key |-> <<"s", "*", "2">>, val |-> <<"b">>]>>
    /\ args.keys = <<(<<"a">>)>>
    /\ args.table = <<"t", "1">>
    /\ built.text = <<"insert into ", "t", "1", " (", "a", ",", "a", "b", ",", "b",
                      ") select * from (select ", "s", ",", "b", ",", "s", "*", "2",
                      " from ", "t", "0", ") as vals(",
                      "alias", "0", ",", "alias", "1", ",", "alias", "2",
                      ") on duplicate key update ",
                      "a", "b", "=vals.", "alias", "1", ",",
                      "b", "=vals.", "alias", "2">>

ClausePairs ==
    LET items == InsertSelectClause
        nonkey == {i \in 1..Len(DestCols) :
                     \A j \in 1..Len(args.keys) : args.keys[j] # DestCols[i]}
    IN  /\ Len(items) = Cardinality(nonkey)
        /\ \E f \in [1..Len(items) -> nonkey] :
             /\ StrictlyIncreasing(f)
             /\ \A m \in 1..Len(items) :
                  /\ items[m] = DestCols[f[m]] \o <<"=vals.">> \o AliasName(f[m] - 1)
                  /\ f[m] <= Len(AliasList)
                  /\ After(items[m], "=vals.") = AliasList[f[m]]
        /\ \A m \in 1..Len(items) :
             \A j \in 1..Len(args.keys) : Before(items[m], "=vals.") # args.keys[j]
        /\ \A i \in nonkey :
             Cardinality({m \in 1..Len(items) :
                            Before(items[m], "=vals.") = DestCols[i]}) = 1

\* C4 as stated, for every column_map: one pair d=vals.alias{i} per non-key
\* destination column d, in map order, i the position of d, no key column,
\* the alias being the one declared at d's position in vals(...).
C4_ClauseForEveryMap == InsertSelectBuilt => ClausePairs

\* C4 (amended): the same, for every column_map whose destination columns are
\* pairwise distinct.
C4_ClauseForDistinctDest == (InsertSelectBuilt /\ DistinctDest) => ClausePairs

C4_Witness ==
    /\ InsertSelectBuilt
    /\ DistinctDest
    /\ Len(args.colmap) = 3
    /\ args.keys = <<DestCols[2]>>
    /\ InsertSelectClause = <<DestCols[1] \o <<"=vals.", "alias", "0">>,
                              DestCols[3] \o <<"=vals.", "alias", "2">> >>

\* --------------------------------------------------------------- C7..C10
CallOps == {"execute", "executemany", "fetchone", "fetchall"}

Events(log, kind) == {i \in 1..Len(log) : log[i].ev = kind}

\* the call that just finished ran on an open connection
CalledOpen == last.op \in CallOps /\ last.was = "open"

\* C7: after any sequence of execute, executemany, fetchone and fetchall on
\* an open handler, whether each returned or raised, no cursor is open and
\* none was closed twice; the call that just finished acquired exactly one
\* cursor and closed that cursor exactly once, before it returned or raised.
C7_NoCursorLeftOpen ==
    /\ \A c \in 1..Len(cursors) : cursors[c] = 1
    /\ CalledOpen =>
         LET log == last.log
             cur == Len(cursors)
         IN  /\ cur >= 1
             /\ Events(log, "cursor") = {1}
             /\ log[1].cur = cur
             /\ Cardinality(Events(log, "close")) = 1
             /\ \A i \in Events(log, "close") : log[i].cur = cur /\ i = Len(log) - 1
             /\ log[Len(log)].ev \in {"return", "raise"}
             /\ Events(log, "return") \cup Events(log, "raise") = {Len(log)}

C7_Witness ==
    /\ Len(cursors) = 3
    /\ \A c \in 1..3 : cursors[c] = 1
    /\ last.op = "fetchall"
    /\ last.drv.stage = "fetch"
    /\ last.exc.cls = "Warning"

\* C8: when the driver's execute raises inside execute, for each of the nine
\* connector error classes and for Warning, close() of the call's cursor runs
\* exactly once, after the driver's execute and before the exception reaches
\* the caller.
C8_CloseBeforeRaise ==
    /\ {e.cls : e \in EXCEPTIONS} = CLASSES
    /\ (last.op = "execute" /\ last.was = "open" /\ last.drv.stage = "execute")
       => LET log == last.log
              cur == Len(cursors)
          IN  /\ last.exc.cls = last.drv.exc.cls
              /\ cur >= 1 /\ cursors[cur] = 1
              /\ Count(log, "close", cur) = 1
              /\ \A c \in Events(log, "close"), r \in Events(log, "raise"),
                    x \in Events(log, "execute") : x < c /\ c < r
              /\ Events(log, "raise") = {Len(log)}
              /\ Events(log, "return") = {}

C8_Witness ==
    /\ last.op = "execute"
    /\ last.drv.exc.cls = "Warning"
    /\ last.exc.cls = "Warning"
    /\ cursors = <<1>>
    /\ [i \in 1..Len(last.log) |-> last.log[i].ev] = <<"cursor", "execute", "close", "raise">>

SameError(raised, seen) ==
    /\ seen.cls = raised.cls
    /\ seen.errno = raised.errno
    /\ \/ seen.notes = raised.notes
       \/ seen.notes = Append(raised.notes, StatementNote(last.statement))

\* C9: an error the driver raises inside execute, executemany, fetchone or
\* fetchall, or an exception raised inside the with block, reaches the caller
\* as that error, with its class and error code; __exit__ suppresses nothing.
C9_ErrorsReachCaller ==
    /\ (CalledOpen /\ last.drv.exc # NoExc)
       => /\ SameError(last.drv.exc, last.exc)
          /\ last.log[Len(last.log)].ev = "raise"
    /\ (last.op \in CallOps /\ last.was = "closed")
       => /\ last.exc = NotAvailable
          /\ last.log[Len(last.log)].ev = "raise"
    /\ (last.op = "exit" /\ last.drv.exc # NoExc)
       => /\ last.exc = last.drv.exc
          /\ last.log[Len(last.log)].ev = "raise"

C9_Witness ==
    /\ last.op = "exit"
    /\ last.drv.exc = [cls |-> "Error", errno |-> 123, notes |-> <<>>]
    /\ last.exc = [cls |-> "Error", errno |-> 123, notes |-> <<>>]
    /\ cnx = "closed"

\* C10: a database error re-raised by execute carries the statement as a
\* note, as the errors re-raised by executemany and fetchall do.
C10_ExecuteErrorCarriesStatement ==
    (last.op \in {"execute", "executemany", "fetchall"} /\ last.was = "open"
     /\ IsConnectorError(last.exc))
    => In(StatementNote(last.statement), last.exc.notes)

\* ------------------------------------------------------------- C11..C13
\* C11: fetchone on a query with an empty result returns None, raising
\* nothing and returning no sequence; on a non-empty result it returns one
\* row, the first; the cursor is closed in both cases.
C11_FetchoneNoneOrFirstRow ==
    (last.op = "fetchone" /\ last.was = "open" /\ last.drv.stage = "none")
    => /\ last.exc = NoExc
       /\ last.log[Len(last.log)].ev = "return"
       /\ last.drv.rows = <<>> => last.value = [kind |-> "None", rows |-> <<>>]
       /\ last.drv.rows # <<>>
            => last.value = [kind |-> "row", rows |-> <<last.drv.rows[1]>>]
       /\ cursors[Len(cursors)] = 1
       /\ Count(last.log, "close", Len(cursors)) = 1

C11_Witness ==
    /\ last.op = "fetchone"
    /\ last.drv.stage = "none"
    /\ last.drv.rows = <<>>
    /\ last.value.kind = "None"
    /\ last.exc = NoExc
    /\ cursors = <<1>>

\* C12: the handler goes from open to closed once, by close() or by leaving
\* the with block, and never back to open; close() on a closed handler, or
\* leaving the block after close(), raises nothing and leaves it closed.
C12_ClosedOnceForGood ==
    [][/\ cnx = "closed" => cnx' = "closed"
       /\ last'.op = "close"
            => /\ cnx' = "closed"
               /\ last'.exc = NoExc
               /\ last'.log[Len(last'.log)].ev = "return"
       /\ (last'.op = "exit" /\ last'.drv.exc = NoExc)
            => /\ cnx' = "closed"
               /\ last'.exc = NoExc]_vars

C12_Witness ==
    /\ last.op = "close"
    /\ last.was = "closed"
    /\ last.exc = NoExc
    /\ cnx = "closed"

\* C13: on a closed handler every execute, executemany, fetchone and fetchall
\* fails with an error and hands no statement to the driver.
C13_ClosedHandlerFails ==
    (last.op \in CallOps /\ last.was = "closed")
    => /\ cnx = "closed"
       /\ last.exc # NoExc
       /\ IsConnectorError(last.exc)
       /\ last.value = NoValue
       /\ [i \in 1..Len(last.log) |-> last.log[i].ev] = <<"raise">>

C13_Witness ==
    /\ last.op = "executemany"
    /\ last.was = "closed"
    /\ cnx = "closed"
    /\ last.exc.cls = "OperationalError"

\* ------------------------------------------------------------------ C14
\* C14: leaving the with block closes the connection on every way out of
\* it: no exception, a database error, any other exception; and it does so
\* for a connection the caller supplied as for one the handler opened.
C14_ExitAlwaysCloses ==
    last.op = "exit"
    => /\ ctor.state = "ready"
       /\ cnx = "closed"
       /\ last.log[1].ev = "cnx.close"
       /\ Count(last.log, "cnx.close", 0) = 1

C14_Witness ==
    /\ last.op = "exit"
    /\ ctor.supplied
    /\ last.was = "open"
    /\ last.drv.exc.cls = "Warning"
    /\ last.exc.cls = "Warning"
    /\ cnx = "closed"

\* ------------------------------------------------------------- C15..C17
RetryDone == rt.pc \in {"returned", "raised"}

CallEv(a) == [ev |-> "call", args |-> a, secs |-> 0]

SleepEv(secs) == [ev |-> "sleep", args |-> <<>>, secs |-> secs]

\* the operation raised exc, whose code is connection lost or lock wait timeout
TransientCode(exc) ==
    exc # NoExc /\ exc.errno \in {CR_SERVER_LOST, CR_SERVER_LOST_EXTENDED,
                                   ER_LOCK_WAIT_TIMEOUT}

FailsTwiceThenSucceeds ==
    /\ rt.max_attempts >= 3
    /\ TransientCode(rt.script[1])
    /\ TransientCode(rt.script[2])
    /\ rt.script[3] = NoExc

\* C15: when the operation fails twice with a transient code and then
\* succeeds, retry calls it three times with the given arguments, returns its
\* value and sleeps twice, base^0 seconds after the first failure and base^1
\* after the second, each sleep between two attempts; when the operation
\* succeeds at once it is called once and nothing sleeps.
C15_TwoFailuresTwoSleeps ==
    /\ (RetryDone /\ FailsTwiceThenSucceeds)
         => /\ rt.pc = "returned"
            /\ rt.value = rt.args
            /\ rt.log = <<CallEv(rt.args), SleepEv(1), CallEv(rt.args),
                          SleepEv(rt.base), CallEv(rt.args)>>
    /\ (RetryDone /\ rt.script[1] = NoExc)
         => /\ rt.pc = "returned"
            /\ rt.value = rt.args
            /\ rt.log = <<CallEv(rt.args)>>

C15_Witness ==
    /\ rt.pc = "returned"
    /\ FailsTwiceThenSucceeds
    /\ rt.base = 3
    /\ Len(rt.log) = 5
    /\ rt.log[4].secs = 3

AlwaysTransient == \A i \in 1..Len(rt.script) : TransientCode(rt.script[i])

\* C16: when the operation always fails with a transient code, retry ends:
\* it calls the operation max_attempts times, never more, and then raises the
\* error of the last call.
C16_ExhaustsThenRaises ==
    /\ [](AlwaysTransient => Calls(rt.log) <= rt.max_attempts)
    /\ []((AlwaysTransient /\ RetryDone)
            => /\ rt.pc = "raised"
               /\ Calls(rt.log) = rt.max_attempts
               /\ rt.exc = rt.script[rt.max_attempts])
    /\ (AlwaysTransient /\ rt.pc = "call") ~> (rt.pc = "raised")

C16_Witness ==
    /\ AlwaysTransient
    /\ rt.pc = "raised"
    /\ rt.max_attempts = 3
    /\ Calls(rt.log) = 3
    /\ rt.script[2] # rt.script[3]
    /\ rt.exc = rt.script[3]

C18_TruncateBatch ==
    [][(last.op = "none" /\ last'.op = "truncate")
         => LET runs == Events(last'.log, "execute")
                batch == last'.statement
            IN  /\ Cardinality(runs) = 1
                /\ \A i \in runs : /\ last'.log[i].multi
                                   /\ last'.log[i].statement = batch
                /\ batch = <<<<"set foreign_key_checks = ", 0>>,
                             <<"truncate table ", TABLE>>,
                             <<"set foreign_key_checks = ", 1>>>>
                /\ \A d \in {last'.found, db'} : Apply(d, batch[Len(batch)]).fk
                /\ cursors' = Append(cursors, 1)
                /\ last'.exc = NoExc => (db'.rows = {} /\ db'.fk)]_vars

C18_Witness ==
    /\ last.op = "truncate"
    /\ last.params = FALSE
    /\ last.exc = NoExc
    /\ last.found.rows = {1, 2}
    /\ db.rows = {}
    /\ db.fk

NoWriter == Events(ri.log, "writer.insert") = {}

\* the events of reset_auto_increment's three statements, from cursor c on
ResetLog(c, n) ==
    <<Ev("cursor", c),
      EvRun("execute", c, SelectMax(COL, TABLE), "{}", FALSE),
      Ev("fetchone", c),
      Ev("close", c),
      Ev("cursor", c + 1),
      EvRun("execute", c + 1, AlterAutoIncrement(TABLE, n), "{}", FALSE),
      Ev("close", c + 1),
      Ev("cursor", c + 2),
      EvRun("execute", c + 2, SelectAutoIncrement(TABLE), "{}", FALSE),
      Ev("fetchone", c + 2),
      Ev("close", c + 2)>>

\* C19: with no other writer and a table that has rows, reset_auto_increment
\* issues three statements in order, each through a cursor of its own: it
\* reads max(col), sets the counter to max(col) + 1 and reads the counter
\* back; it returns the counter it read back, which is max(col) + 1.
C19_ResetReturnsMaxPlusOne ==
    (ri.pc = "done" /\ NoWriter /\ db.rows # {})
    => /\ ri.max_val = Some(Max(db.rows))
       /\ ri.log = ResetLog(ri.log[1].cur, Max(db.rows) + 1)
       /\ ri.result = Some(Max(db.rows) + 1)
       /\ db.auto_increment = Max(db.rows) + 1
       /\ \A c \in ri.log[1].cur..(ri.log[1].cur + 2) : cursors[c] = 1

C19_Witness ==
    /\ ri.pc = "done"
    /\ NoWriter
    /\ db.rows = {1, 2}
    /\ ri.result = Some(3)
    /\ cursors = <<1, 1, 1>>

\* a writer inserted after the max was read and before the counter was set
Raced ==
    \E i, j, k \in 1..Len(ri.log) :
        /\ i < j /\ j < k
        /\ ri.log[i].ev = "fetchone"
        /\ ri.log[j].ev = "writer.insert"
        /\ ri.log[k].ev = "execute"

\* C20: reset_auto_increment is not atomic: the value it sets is the max it
\* read plus one, also when a writer has inserted a row since, and then the
\* value set is not above the table's max(col).
C20_SetsFromStaleMax ==
    ri.pc \in {"reread", "done"}
    => /\ ri.set_value = ri.max_val[1] + 1
       /\ Raced => ri.set_value <= Max(db.rows)

C20_Witness ==
    /\ ri.pc = "reread"
    /\ Raced
    /\ ri.max_val = Some(1)
    /\ ri.set_value = 2
    /\ Max(db.rows) = 3
    /\ db.auto_increment = 4

\* ------------------------------------------------------------- C21..C23
\* options with the password replaced, read off the dict entry by entry
RedactedOf(o) ==
    IF \E i \in 1..Len(o) : o[i].key = "password"
    THEN [i \in 1..Len(o) |->
            IF o[i].key = "password" THEN [key |-> "password", val |-> "REDACTED"]
            ELSE o[i]]
    ELSE o \o <<[key |-> "password", val |-> "REDACTED"]>>

\* the password in options o, "" when o has none
PasswordOf(o) ==
    IF \E i \in 1..Len(o) : o[i].key = "password"
    THEN o[CHOOSE i \in 1..Len(o) : o[i].key = "password"].val
    ELSE ""

\* the log records that carry the connection options
OptionRecords(log) ==
    {i \in 1..Len(log) : log[i].ev \in {"debug.mysql_options", "critical"}}

\* C21: when no connection is supplied and connecting fails with a database
\* error, the constructor has tried to connect once, has logged one critical
\* record with the redacted options and raises the driver's error; there is
\* no handler.
C21_ConnectFailsOnce ==
    IsConnectorError(ctor.drv)
    => /\ ctor.state = "failed"
       /\ ~ctor.supplied
       /\ cnx = "none"
       /\ Count(ctor.log, "connect", 0) = 1
       /\ Count(ctor.log, "critical", 0) = 1
       /\ \A i \in Events(ctor.log, "critical") :
             /\ ctor.log[i].params = RedactedOf(ctor.given)
             /\ Events(ctor.log, "connect") = {i - 1}
       /\ ctor.exc = ctor.drv
       /\ ctor.log[Len(ctor.log)].ev = "raise"
       /\ last.op = "none"

C21_Witness ==
    /\ ctor.state = "failed"
    /\ ctor.drv.cls = "InterfaceError"
    /\ ctor.exc = ctor.drv
    /\ DictGet(ctor.given, "host") = "badhost"
    /\ Count(ctor.log, "critical", 0) = 1

SameButPassword(o1, o2) ==
    /\ Len(o1) = Len(o2)
    /\ \A i \in 1..Len(o1) :
          /\ o1[i].key = o2[i].key
          /\ o1[i].key # "password" => o1[i].val = o2[i].val

\* C22: every log record that carries the connection options (the debug
\* record of the constructor, the critical record of a failed connect, the
\* critical record of a database error at scope exit) carries them with the
\* password replaced by REDACTED and every other entry as passed; options
\* that differ only in the password give the same logged options.
C22_LoggedOptionsRedacted ==
    \A log \in {ctor.log, last.log} :
        \A i \in OptionRecords(log) :
            /\ PasswordOf(log[i].params) = "REDACTED"
            /\ log[i].params = RedactedOf(ctor.given)
            /\ \A o2 \in OPTIONS :
                  SameButPassword(o2, ctor.given)
                    => redact_mysql_options(o2).ret = log[i].params

C22_Witness ==
    /\ last.op = "exit"
    /\ Events(last.log, "critical") # {}
    /\ Events(ctor.log, "debug.mysql_options") # {}
    /\ PasswordOf(ctor.given) = "hunter2"
    /\ \A i \in Events(last.log, "critical") :
          PasswordOf(last.log[i].params) = "REDACTED"

\* C23: the options dict the caller passed is never changed by the handler:
\* not by the constructor, which redacts a copy, and not by execute,
\* executemany, fetchone, fetchall, close or scope exit; a supplied
\* connection is stored as it was passed.
C23_OptionsNeverMutated ==
    [][/\ ctor'.mysql_options = ctor'.given
       /\ ctor.state # "none" => ctor'.given = ctor.given
       /\ (ctor.state = "none" /\ ctor'.state = "ready" /\ ctor'.supplied)
            => cnx' = ctor'.cnx_given
       /\ ctor'.state = "ready"
            => ctor'.mysql_options_redacted = RedactedOf(ctor'.given)]_vars

C23_Witness ==
    /\ ctor.state = "ready"
    /\ ctor.supplied
    /\ last.op = "fetchall"
    /\ ctor.mysql_options = ctor.given
    /\ PasswordOf(ctor.mysql_options) = "secret"
    /\ PasswordOf(ctor.mysql_options_redacted) = "REDACTED"

\* ------------------------------------------------------------- C26..C28
\* C26: when every column is a key and no override is given, the upsert
\* statement is built without error and its update clause is empty: the text
\* ends with 'on duplicate key update ' and nothing after it.
C26_AllKeysEmptyClause ==
    (UpsertBuilt /\ args.override = <<>>
       /\ \A i \in 1..Len(args.cols) :
             \E j \in 1..Len(args.keys) : args.keys[j] = args.cols[i])
    => /\ built.text[Len(built.text)] = ") as vals on duplicate key update "
       /\ UpsertClause = <<>>
       /\ Cardinality({i \in 1..Len(built.text) :
                         built.text[i] = ") as vals on duplicate key update "}) = 1

C26_Witness ==
    /\ UpsertBuilt
    /\ args.cols = <<(<<"a">>), (<<"a", "b">>)>>
    /\ args.keys = <<(<<"a", "b">>), (<<"a">>)>>
    /\ args.override = <<>>
    /\ UpsertClause = <<>>

\* the statement with the clause made of col=vals.col for the columns that
\* are no keys, read off the arguments
Synthesized ==
    LET nonkey == SelectSeq(args.cols,
                            LAMBDA c : \A j \in 1..Len(args.keys) : args.keys[j] # c)
        flat(xs) == Join(<<",">>, xs)
    IN  <<"insert into ">> \o args.table \o <<" (">> \o flat(args.cols)
        \o <<") values (">> \o flat([i \in 1..Len(args.cols) |-> <<"%s">>])
        \o <<") as vals on duplicate key update ">>
        \o flat([i \in 1..Len(nonkey) |-> Pair(nonkey[i])])

\* C27: on_dup = '' counts as no override: for every table, cols and keys
\* the statement built with on_dup = '' is the statement built with on_dup
\* left out, the one whose clause is col=vals.col for cols minus keys.
C27_EmptyOverrideIsNone ==
    (UpsertBuilt /\ args.override = <<>>) => built.text = Synthesized

C27_Witness ==
    /\ UpsertBuilt
    /\ args.on_dup_given
    /\ args.override = <<>>
    /\ args.cols = <<(<<"a">>), (<<"b">>)>>
    /\ args.keys = <<(<<"a">>)>>
    /\ built.text = Synthesized

InsertSelectStrBuilt == built.done /\ args.fn = "insert_select_str"

\* C28: with keys passed as one str, a destination column is left out of the
\* update clause exactly when it equals that string; a column whose name is
\* only a part of the string stays in the clause.
C28_StrKeysExcludeEqualOnly ==
    InsertSelectStrBuilt
    => LET items == InsertSelectClause
           kept == SelectSeq(DestCols, LAMBDA c : c # args.keys_str)
       IN  /\ Len(items) = Len(kept)
           /\ \A m \in 1..Len(items) : Before(items[m], "=vals.") = kept[m]

\* ------------------------------------------------------------- C29..C30
\* C29: execute hands the caller's params to the driver with multi=True as
\* with multi=False, and with multi=True every statement of the script has
\* run before the cursor is closed.
C29_MultiPassesParams ==
    (last.op = "execute" /\ last.was = "open")
    => /\ \A i \in Events(last.log, "execute") :
             IF last.params \in {"None", "()"}
             THEN last.log[i].params \in {"None", "()", "{}"}
             ELSE last.log[i].params = last.params
       /\ (last.multi /\ last.exc = NoExc)
            => \E i, j \in 1..Len(last.log) :
                  /\ i < j
                  /\ last.log[i].ev = "iterate"
                  /\ last.log[j].ev = "close"

\* C30: on an empty table max(col) is None and reset_auto_increment raises
\* before any alter table statement: the counter stays as it was, the cursor
\* of the max-read is closed already, and nothing is returned.
C30_EmptyTableRaisesBeforeAlter ==
    [][/\ (ri.pc = "idle" /\ ri'.pc = "set" /\ db.rows = {})
            => /\ ri'.max_val = None
               /\ cursors' = Append(cursors, 1)
       /\ (ri.pc = "set" /\ ri.max_val = None /\ ri'.pc # "set")
            => /\ ri'.pc = "raised"
               /\ ri'.exc # NoExc
               /\ ri'.result = None
               /\ db' = db
               /\ cursors' = cursors
               /\ \A i \in Events(ri'.log, "execute") :
                     ri'.log[i].statement = SelectMax(COL, TABLE)
               /\ \A c \in {ri'.log[i].cur : i \in Events(ri'.log, "cursor")} :
                     cursors[c] = 1]_vars

C30_Witness ==
    /\ ri.pc = "raised"
    /\ ri.max_val = None
    /\ ri.exc.cls = "TypeError"
    /\ Cardinality(Events(ri.log, "execute")) = 1
    /\ db.rows = {}
    /\ db.auto_increment = 3
    /\ cursors = <<1>>

\* ------------------------------------------------------- C24 .. C25
IsUpsertCall(c) == c.op = "insert_on_duplicate_key_update"

\* the same upsert has just run a second time
UpsertRepeated ==
    /\ IsUpsertCall(last) /\ IsUpsertCall(last.prev)
    /\ last.statement = last.prev.statement
    /\ last.params = last.prev.params

\* the column list of an insert statement
StatementCols(st) == Items(Between(st, " (", ") values ("))

\* the second run changed nothing and met no duplicate entry
SecondRunIsNoOp ==
    /\ db = last.found
    /\ last.exc.cls # "IntegrityError"
    /\ \A r, q \in db.rows : r.id = q.id => r = q

\* C24 as stated: running insert_on_duplicate_key_update twice with the same
\* table, cols, keys (the primary key) and rows leaves the table as one run
\* left it, raises no duplicate-key error and duplicates no row
C24_UpsertTwiceAsOnce == UpsertRepeated => SecondRunIsNoOp

\* C24 amended: the same, for cols that include the key column, so that
\* every row carries its key value
C24_UpsertTwiceAsOnceWithKey ==
    (UpsertRepeated /\ \E i \in 1..Len(StatementCols(last.statement)) :
                          StatementCols(last.statement)[i] = ID)
    => SecondRunIsNoOp

C24_Witness ==
    /\ UpsertRepeated
    /\ StatementCols(last.statement) = <<ID, FIRST_NAME>>
    /\ last.params = <<<<2, "Ann">>, <<1, "Bob">>>>
    /\ last.prev.found.rows = {[id |-> 2, first_name |-> "Bob"]}
    /\ last.prev.exc = NoExc /\ last.exc = NoExc
    /\ db.rows = {[id |-> 1, first_name |-> "Bob"], [id |-> 2, first_name |-> "Ann"]}
    /\ db = last.found

\* fetchall with order by id has just read the table that executemany had
\* filled from empty
ReadAfterInsertMany ==
    /\ last.op = "fetchall" /\ last.prev.op = "executemany"
    /\ last.prev.found.rows = {} /\ last.prev.exc = NoExc
    /\ \E i \in 1..Len(last.statement) : last.statement[i] = " order by "

\* the insert went to the driver as one executemany call over all rows
OneBatchedCall ==
    /\ Cardinality(Events(last.prev.log, "executemany")) = 1
    /\ Events(last.prev.log, "execute") = {}
    /\ \A i \in Events(last.prev.log, "executemany") :
          last.prev.log[i].params = last.prev.params

\* C25 as stated: after executemany inserts rows with distinct primary keys
\* into the empty table through one batched driver call, fetchall with order
\* by on the primary key returns exactly those rows, in the same order, as
\* positional tuples
C25_RoundTripSameOrder ==
    ReadAfterInsertMany
    => /\ OneBatchedCall
       /\ last.exc = NoExc
       /\ last.value = [kind |-> "rows", rows |-> last.prev.params]

\* C25 amended: fetchall returns exactly those rows as positional tuples in
\* ascending primary-key order, which is the inserted order when the rows
\* were inserted in ascending key order
C25_RoundTripKeyOrder ==
    ReadAfterInsertMany
    => /\ OneBatchedCall
       /\ last.exc = NoExc
       /\ last.value.kind = "rows"
       /\ Len(last.value.rows) = Len(last.prev.params)
       /\ {last.value.rows[i] : i \in 1..Len(last.value.rows)}
            = {last.prev.params[i] : i \in 1..Len(last.prev.params)}
       /\ \A i, j \in 1..Len(last.value.rows) :
             i < j => last.value.rows[i][1] < last.value.rows[j][1]
       /\ (\A i, j \in 1..Len(last.prev.params) :
               i < j => last.prev.params[i][1] < last.prev.params[j][1])
            => last.value.rows = last.prev.params

C25_Witness ==
    /\ ReadAfterInsertMany
    /\ last.prev.params = <<<<2, "Bob">>, <<1, "Ann">>>>
    /\ last.value = [kind |-> "rows", rows |-> <<<<1, "Ann">>, <<2, "Bob">>>>]
    /\ cursors = <<1, 1>>

====
